---------------------------- MODULE Spec2Model ----------------------------
(***************************************************************************)
(* Model of Logger::LogHandler (src/LogHandler.cpp): the double-buffered   *)
(* asynchronous logging engine.  Producer threads call log(), any thread   *)
(* may call the set* configuration methods and init(), the worker thread   *)
(* runs outputEngine(), and the destructor runs at process exit.           *)
(*                                                                         *)
(* Abstractions: a record is identified by the number of its log() call    *)
(* and carries its level; the text of the message and the cached           *)
(* currentTime string are not modelled.  The file system that              *)
(* openLogStream() consults is an input of the init() step.                *)
(***************************************************************************)
EXTENDS Naturals, Sequences, FiniteSets

(* ------------------------------ bounds -------------------------------- *)

\* number of producer threads calling log()
NumProducers == 2
\* number of log() calls that pass the level filter
MaxRecords == 2
\* number of calls of the set* configuration methods made while isStop
MaxConfigCalls == 2
\* number of path components of a log directory given to setLogFile
MaxDirDepth == 1

Producers == 1..NumProducers

(* ------------------------ program constants --------------------------- *)

\* Level: Debug < Info < Warn < Error
Debug == 0
Info == 1
Warn == 2
Error == 3
Levels == {Debug, Info, Warn, Error}

\* LogHandler::LogHandler(): maxBufferSize(50), flushFrequency(3)
DefaultMaxBufferSize == 50
DefaultFlushFrequency == 3

\* the levels log() is called with and setLogLevel is given
CallLevels == {Info}
SetLevels == {Warn}

\* values handed to setMaxBufferSize and setFlushFrequency (unsigned)
BufferSizes == {2}
FlushFrequencies == {0}

\* enum class Output {FILE, CONSOLE}
Outputs == {"FILE", "CONSOLE"}

\* a log path as pathToFile splits it: the directory (its number of
\* components) and the file name
LogPaths == [dir : 1..MaxDirDepth, file : {"log.log"}]

VARIABLES
    proc,            \* "running" | "exited" (exit) | "aborted" (terminate)
    initPc,          \* init(): "none" | "spawned" | "returned" | "threw"
    dpc,             \* ~LogHandler(): "none" | "waitReady" | "join"
    wpc,             \* outputEngine(): the worker's position
    ppc,             \* log() of each producer: "idle" | "formatted" | "threw"
    pending,         \* the OutputEntity each producer has formatted
    nextId,          \* number of log() calls that passed the level filter
    configCalls,     \* number of set* calls made while isStop
    isEngineReady, isCloseEngine, isStop,
    engineMtx,       \* "free" | "dtor"
    logMtx,          \* "free" | "worker"
    logCVSignal,     \* a notify_one on logCV has reached the waiting worker
    maxBufferSize, flushFrequency, logDir, logFile, logLevel, output,
    logStreamOpen,   \* logStream.is_open()
    logReadBuffer, logWriteBuffer,
    appended,        \* history: the entities in the order of their push_back
    closeMark,       \* history: Len(appended) when the destructor was entered
    outputAtInit,    \* history: the output map when init() was entered
    consoleOut,      \* what std::cout has received
    fileOut          \* what the log file has received

cfgVars == <<maxBufferSize, flushFrequency, logDir, logFile, logLevel, output>>
flagVars == <<isEngineReady, isCloseEngine, isStop>>
bufVars == <<logReadBuffer, logWriteBuffer, appended>>
sinkVars == <<consoleOut, fileOut>>
vars == <<proc, initPc, dpc, wpc, ppc, pending, nextId, configCalls,
          isEngineReady, isCloseEngine, isStop, engineMtx, logMtx,
          logCVSignal, maxBufferSize, flushFrequency, logDir,
          logFile, logLevel, output, logStreamOpen, logReadBuffer,
          logWriteBuffer, appended, closeMark, outputAtInit, consoleOut,
          fileOut>>

NoEntity == [id |-> 0, level |-> Debug, toConsole |-> <<>>, toFile |-> <<>>]

(* ---------------------------- constructor ----------------------------- *)

Init ==
    /\ proc = "running"
    /\ initPc = "none"
    /\ dpc = "none"
    /\ wpc = "notStarted"
    /\ ppc = [p \in Producers |-> "idle"]
    /\ pending = [p \in Producers |-> NoEntity]
    /\ nextId = 0
    /\ configCalls = 0
    /\ isEngineReady = FALSE
    /\ isCloseEngine = FALSE
    /\ isStop = TRUE
    /\ engineMtx = "free"
    /\ logMtx = "free"
    /\ logCVSignal = FALSE
    /\ maxBufferSize = DefaultMaxBufferSize
    /\ flushFrequency = DefaultFlushFrequency
    /\ logDir = 0
    /\ logFile = "app.log"
    /\ logLevel = Info
    /\ output = [o \in Outputs |-> TRUE]
    /\ logStreamOpen = FALSE
    /\ logReadBuffer = <<>>
    /\ logWriteBuffer = <<>>
    /\ appended = <<>>
    /\ closeMark = 0
    /\ outputAtInit = output
    /\ consoleOut = <<>>
    /\ fileOut = <<>>


Running == proc = "running"

(* --------------------------- configuration ---------------------------- *)
\* Each set* method holds logMtx for its whole body (lock_guard) and
\* returns at once when isStop is false.

\* a setOutput without the isStop guard
setOutputUnguarded(o, isAllowed) ==
    /\ Running /\ logMtx = "free"
    /\ configCalls < MaxConfigCalls
    /\ configCalls' = configCalls + 1
    /\ output' = [output EXCEPT ![o] = isAllowed]
    /\ logStreamOpen' =
          IF o = "FILE" /\ ~isAllowed THEN FALSE ELSE logStreamOpen
    /\ UNCHANGED <<proc, initPc, dpc, wpc, ppc, pending, nextId, flagVars,
                   engineMtx, logMtx, logCVSignal, maxBufferSize,
                   flushFrequency, logDir, logFile, logLevel, bufVars,
                   sinkVars, closeMark, outputAtInit>>

setOutput(o, isAllowed) ==
    /\ Running /\ logMtx = "free"
    /\ isStop => configCalls < MaxConfigCalls
    /\ configCalls' = IF isStop THEN configCalls + 1 ELSE configCalls
    /\ IF ~isStop
       THEN UNCHANGED <<output, logStreamOpen>>
       ELSE /\ output' = [output EXCEPT ![o] = isAllowed]
            /\ logStreamOpen' =
                  IF o = "FILE" /\ ~isAllowed THEN FALSE ELSE logStreamOpen
    /\ UNCHANGED <<proc, initPc, dpc, wpc, ppc, pending, nextId, flagVars,
                   engineMtx, logMtx, logCVSignal, maxBufferSize,
                   flushFrequency, logDir, logFile, logLevel, bufVars,
                   sinkVars, closeMark, outputAtInit>>

setLogFile(logPath) ==
    /\ Running /\ logMtx = "free"
    /\ isStop => configCalls < MaxConfigCalls
    /\ configCalls' = IF isStop THEN configCalls + 1 ELSE configCalls
    /\ IF ~isStop
       THEN UNCHANGED <<output, logStreamOpen, logDir, logFile>>
       ELSE /\ logStreamOpen' = FALSE
            /\ output' = [output EXCEPT !["FILE"] = TRUE]
            /\ logDir' = logPath.dir
            /\ logFile' = logPath.file
    /\ UNCHANGED <<proc, initPc, dpc, wpc, ppc, pending, nextId, flagVars,
                   engineMtx, logMtx, logCVSignal, maxBufferSize,
                   flushFrequency, logLevel, bufVars, sinkVars,
                   closeMark, outputAtInit>>

setLogLevelUnguarded(level) ==
    /\ Running /\ logMtx = "free"
    /\ isStop => configCalls < MaxConfigCalls
    /\ configCalls' = IF isStop THEN configCalls + 1 ELSE configCalls
    /\ logLevel' = level
    /\ UNCHANGED <<proc, initPc, dpc, wpc, ppc, pending, nextId, flagVars,
                   engineMtx, logMtx, logCVSignal, maxBufferSize,
                   flushFrequency, logDir, logFile, output, logStreamOpen,
                   bufVars, sinkVars, closeMark, outputAtInit>>

setLogLevel(level) ==
    /\ Running /\ logMtx = "free"
    /\ isStop => configCalls < MaxConfigCalls
    /\ configCalls' = IF isStop THEN configCalls + 1 ELSE configCalls
    /\ logLevel' = IF ~isStop THEN logLevel ELSE level
    /\ UNCHANGED <<proc, initPc, dpc, wpc, ppc, pending, nextId, flagVars,
                   engineMtx, logMtx, logCVSignal, maxBufferSize,
                   flushFrequency, logDir, logFile, output, logStreamOpen,
                   bufVars, sinkVars, closeMark, outputAtInit>>

setFlushFrequency(fre) ==
    /\ Running /\ logMtx = "free"
    /\ isStop => configCalls < MaxConfigCalls
    /\ configCalls' = IF isStop THEN configCalls + 1 ELSE configCalls
    /\ flushFrequency' = IF ~isStop THEN flushFrequency ELSE fre
    /\ UNCHANGED <<proc, initPc, dpc, wpc, ppc, pending, nextId, flagVars,
                   engineMtx, logMtx, logCVSignal, maxBufferSize, logDir,
                   logFile, logLevel, output, logStreamOpen, bufVars,
                   sinkVars, closeMark, outputAtInit>>

setMaxBufferSize(size) ==
    /\ Running /\ logMtx = "free"
    /\ isStop => configCalls < MaxConfigCalls
    /\ configCalls' = IF isStop THEN configCalls + 1 ELSE configCalls
    /\ maxBufferSize' = IF ~isStop THEN maxBufferSize ELSE size
    /\ UNCHANGED <<proc, initPc, dpc, wpc, ppc, pending, nextId, flagVars,
                   engineMtx, logMtx, logCVSignal, flushFrequency, logDir,
                   logFile, logLevel, output, logStreamOpen, bufVars,
                   sinkVars, closeMark, outputAtInit>>

(* ------------------------------ init() -------------------------------- *)

\* What openLogStream() finds on disk and what the system calls answer:
\*   existing    leading components of logDir that exist as directories
\*   blocked     the first component that is no directory is another file
\*   writable    access(logDir, W_OK) succeeds when logDir exists
\*   mkdirOk     mkdir succeeds
\*   uninitIsDir S_ISDIR of the fileStat that a failed stat left unwritten
\*   openOk      logStream.open succeeds
FileSystems(depth) ==
    [existing : 0..depth, blocked : BOOLEAN, writable : BOOLEAN,
     mkdirOk : BOOLEAN, uninitIsDir : BOOLEAN, openOk : BOOLEAN]

\* The loop of openLogStream over the directories dir(idx), idx..depth.
RECURSIVE createDirs(_, _, _)
createDirs(idx, depth, fs) ==
    IF idx > depth THEN "ok"
    ELSE IF idx <= fs.existing THEN createDirs(idx + 1, depth, fs)
    ELSE IF idx = fs.existing + 1 /\ fs.blocked THEN "Directory error"
    ELSE IF ~fs.mkdirOk THEN "Cannot create directory"
    ELSE IF ~fs.uninitIsDir THEN "Directory error"
    ELSE createDirs(idx + 1, depth, fs)

\* openLogStream(): the exception it throws, or "ok"
openLogStream(depth, fs) ==
    IF depth > 0 /\ fs.existing = depth /\ fs.writable
    THEN "ok"
    ELSE createDirs(1, depth, fs)

\* an init() that clears isStop when it spawns the worker, before the
\* section that opens the stream
InitSpawnClearingStop ==
    /\ Running /\ initPc = "none" /\ dpc = "none"
    /\ initPc' = "spawned"
    /\ wpc' = "start"
    /\ isStop' = FALSE
    /\ outputAtInit' = output
    /\ UNCHANGED <<proc, dpc, ppc, pending, nextId, configCalls,
                   isEngineReady, isCloseEngine, engineMtx, logMtx,
                   logCVSignal, cfgVars, logStreamOpen, bufVars, sinkVars,
                   closeMark>>

\* outputThread = std::thread(&LogHandler::outputEngine, this)
InitSpawn ==
    /\ Running /\ initPc = "none" /\ dpc = "none"
    /\ initPc' = "spawned"
    /\ wpc' = "start"
    /\ outputAtInit' = output
    /\ UNCHANGED <<proc, dpc, ppc, pending, nextId, configCalls, flagVars,
                   engineMtx, logMtx, logCVSignal, cfgVars, logStreamOpen,
                   bufVars, sinkVars, closeMark>>

\* the move assignment to a joinable std::thread calls std::terminate()
InitAgain ==
    /\ Running /\ initPc # "none" /\ dpc = "none"
    /\ proc' = "aborted"
    /\ UNCHANGED <<initPc, dpc, wpc, ppc, pending, nextId, configCalls,
                   flagVars, engineMtx, logMtx, logCVSignal, cfgVars,
                   logStreamOpen, bufVars, sinkVars, closeMark, outputAtInit>>

\* the rest of init(), under logMtx
InitLocked ==
    /\ Running /\ initPc = "spawned" /\ logMtx = "free"
    /\ isStop' = FALSE
    /\ IF output["FILE"]
       THEN \E fs \in FileSystems(logDir) :
              LET r == openLogStream(logDir, fs) IN
              IF r = "ok"
              THEN /\ logStreamOpen' = fs.openOk
                   /\ initPc' = "returned"
              ELSE /\ logStreamOpen' = FALSE
                   /\ initPc' = "threw"
       ELSE /\ initPc' = "returned"
            /\ UNCHANGED logStreamOpen
    /\ UNCHANGED <<proc, dpc, wpc, ppc, pending, nextId, configCalls,
                   isEngineReady, isCloseEngine, engineMtx, logMtx,
                   logCVSignal, cfgVars, bufVars, sinkVars,
                   closeMark, outputAtInit>>

(* ------------------------------- log() -------------------------------- *)

\* the colour escape formatOutput puts before the console form
Colour(level) ==
    CASE level = Debug -> "blue"
      [] level = Info -> "green"
      [] level = Warn -> "yellow"
      [] level = Error -> "red"

formatOutput(level, id) ==
    [id |-> id, level |-> level,
     toConsole |-> <<Colour(level), level, id>>,
     toFile |-> <<level, id>>]

PushFront(buf, e) == <<e>> \o buf

PushBack(buf, e) == Append(buf, e)

\* logCV.notify_one(): wakes the worker if it is blocked in wait_for
NotifyOne == IF wpc = "wait" THEN TRUE ELSE logCVSignal

\* if(level < logLevel) return; formatOutput(...)  -- before the lock
LogBegin(p, level) ==
    /\ Running /\ ppc[p] # "formatted"
    /\ IF level < logLevel
       THEN /\ ppc' = [ppc EXCEPT ![p] = "idle"]
            /\ UNCHANGED <<pending, nextId>>
       ELSE /\ nextId < MaxRecords
            /\ nextId' = nextId + 1
            /\ pending' =
                  [pending EXCEPT ![p] = formatOutput(level, nextId + 1)]
            /\ ppc' = [ppc EXCEPT ![p] = "formatted"]
    /\ UNCHANGED <<proc, initPc, dpc, wpc, configCalls, flagVars, engineMtx,
                   logMtx, logCVSignal, cfgVars, logStreamOpen, bufVars,
                   sinkVars, closeMark, outputAtInit>>

LogLockedNoStopCheck(p) ==
    /\ Running /\ ppc[p] = "formatted" /\ logMtx = "free"
    /\ logReadBuffer' = PushBack(logReadBuffer, pending[p])
    /\ appended' = Append(appended, pending[p])
    /\ logCVSignal' = IF Len(logReadBuffer') >= maxBufferSize
                      THEN NotifyOne ELSE logCVSignal
    /\ ppc' = [ppc EXCEPT ![p] = "idle"]
    /\ pending' = [pending EXCEPT ![p] = NoEntity]
    /\ UNCHANGED <<proc, initPc, dpc, wpc, nextId, configCalls, flagVars,
                   engineMtx, logMtx, cfgVars, logStreamOpen,
                   logWriteBuffer, sinkVars, closeMark, outputAtInit>>

\* the part of log() under logMtx
LogLocked(p) ==
    /\ Running /\ ppc[p] = "formatted" /\ logMtx = "free"
    /\ IF isStop
       THEN /\ ppc' = [ppc EXCEPT ![p] = "threw"]
            /\ UNCHANGED <<logReadBuffer, appended, logCVSignal>>
       ELSE /\ logReadBuffer' = PushBack(logReadBuffer, pending[p])
            /\ appended' = Append(appended, pending[p])
            /\ logCVSignal' = IF Len(logReadBuffer') >= maxBufferSize
                              THEN NotifyOne ELSE logCVSignal
            /\ ppc' = [ppc EXCEPT ![p] = "idle"]
    /\ pending' = [pending EXCEPT ![p] = NoEntity]
    /\ UNCHANGED <<proc, initPc, dpc, wpc, nextId, configCalls, flagVars,
                   engineMtx, logMtx, cfgVars, logStreamOpen,
                   logWriteBuffer, sinkVars, closeMark, outputAtInit>>

(* -------------------------- outputEngine() ---------------------------- *)

\* if( ! isEngineReady) { lock_guard(engineMtx); isEngineReady = true;
\*                        engineCV.notify_one(); }
WorkerAnnounce ==
    /\ Running /\ wpc = "start"
    /\ IF ~isEngineReady
       THEN /\ engineMtx = "free"
            /\ isEngineReady' = TRUE
       ELSE UNCHANGED isEngineReady
    /\ wpc' = "lock"
    /\ UNCHANGED <<proc, initPc, dpc, ppc, pending, nextId, configCalls,
                   isCloseEngine, isStop, engineMtx, logMtx, logCVSignal,
                   cfgVars, logStreamOpen, bufVars, sinkVars,
                   closeMark, outputAtInit>>

\* a loop test that sends the worker back to wait_for and the swap
\* although logWriteBuffer holds records
AfterTestAlwaysWait(writeBuffer) == "wait"

\* what follows the loop test while(logWriteBuffer.empty()): wait_for,
\* or the drain after the block
AfterTest(writeBuffer) == IF writeBuffer = <<>> THEN "wait" ELSE "drain"

\* std::unique_lock<std::mutex> logLck(logMtx) and the first loop test:
\* wait_for releases logMtx, and so does leaving the block
WorkerLock ==
    /\ Running /\ wpc = "lock" /\ logMtx = "free"
    /\ wpc' = AfterTest(logWriteBuffer)
    /\ UNCHANGED <<proc, initPc, dpc, ppc, pending, nextId, configCalls,
                   flagVars, engineMtx, logMtx, logCVSignal, cfgVars,
                   logStreamOpen, bufVars, sinkVars, closeMark, outputAtInit>>

\* wait_for ends on a notification
WorkerNotified ==
    /\ Running /\ wpc = "wait" /\ logCVSignal
    /\ logCVSignal' = FALSE
    /\ wpc' = "reacquire"
    /\ UNCHANGED <<proc, initPc, dpc, ppc, pending, nextId, configCalls,
                   flagVars, engineMtx, logMtx, cfgVars, logStreamOpen,
                   bufVars, sinkVars, closeMark, outputAtInit>>

\* wait_for ends because flushFrequency has elapsed (or spuriously)
WorkerTimeout ==
    /\ Running /\ wpc = "wait"
    /\ logCVSignal' = FALSE
    /\ wpc' = "reacquire"
    /\ UNCHANGED <<proc, initPc, dpc, ppc, pending, nextId, configCalls,
                   flagVars, engineMtx, logMtx, cfgVars, logStreamOpen,
                   bufVars, sinkVars, closeMark, outputAtInit>>

\* wait_for takes logMtx again before it returns
WorkerReacquire ==
    /\ Running /\ wpc = "reacquire" /\ logMtx = "free"
    /\ logMtx' = "worker"
    /\ wpc' = "swap"
    /\ UNCHANGED <<proc, initPc, dpc, ppc, pending, nextId, configCalls,
                   flagVars, engineMtx, logCVSignal, cfgVars, logStreamOpen,
                   bufVars, sinkVars, closeMark, outputAtInit>>

\* isCloseEngine is written under engineMtx and read under logMtx: the
\* read may still see the value from before the write
CloseSeen == IF isCloseEngine THEN {TRUE, FALSE} ELSE {FALSE}

\* exit(0) from the worker while the destructor runs inside the exit of
\* the main thread: the process ends, or the second exit blocks
ExitOutcomes == {"exited", "running"}

\* a swap after which the worker keeps logMtx through the drain loop
WorkerSwapKeepingLock ==
    /\ Running /\ wpc = "swap"
    /\ logWriteBuffer' = logReadBuffer
    /\ logReadBuffer' = logWriteBuffer
    /\ \E seen \in CloseSeen :
         IF seen /\ logWriteBuffer' = <<>>
         THEN /\ wpc' = "exit"
              /\ proc' \in ExitOutcomes
              /\ UNCHANGED logMtx
         ELSE /\ wpc' = AfterTest(logWriteBuffer')
              /\ logMtx' = IF logWriteBuffer' = <<>> THEN "free" ELSE "worker"
              /\ UNCHANGED proc
    /\ UNCHANGED <<initPc, dpc, ppc, pending, nextId, configCalls, flagVars,
                   engineMtx, logCVSignal, cfgVars, logStreamOpen, appended,
                   sinkVars, closeMark, outputAtInit>>

\* logWriteBuffer.swap(logReadBuffer);
\* if(isCloseEngine && logWriteBuffer.empty()) exit(0);
\* freshCurrentTime(); and the loop test again
WorkerSwap ==
    /\ Running /\ wpc = "swap"
    /\ logWriteBuffer' = logReadBuffer
    /\ logReadBuffer' = logWriteBuffer
    /\ \E seen \in CloseSeen :
         IF seen /\ logWriteBuffer' = <<>>
         THEN /\ wpc' = "exit"
              /\ proc' \in ExitOutcomes
              /\ UNCHANGED logMtx
         ELSE /\ wpc' = AfterTest(logWriteBuffer')
              /\ logMtx' = "free"
              /\ UNCHANGED proc
    /\ UNCHANGED <<initPc, dpc, ppc, pending, nextId, configCalls, flagVars,
                   engineMtx, logCVSignal, cfgVars, logStreamOpen, appended,
                   sinkVars, closeMark, outputAtInit>>

Front(buf) == Head(buf)

PopFront(buf) == Tail(buf)

\* a drain round that writes to the console whatever the output map says
WorkerDrainAllSinks ==
    /\ Running /\ wpc = "drain" /\ logWriteBuffer # <<>>
    /\ LET logMsg == Front(logWriteBuffer) IN
       /\ consoleOut' = Append(consoleOut, logMsg.toConsole)
       /\ fileOut' = IF output["FILE"] /\ logStreamOpen
                     THEN Append(fileOut, logMsg.toFile)
                     ELSE fileOut
    /\ logWriteBuffer' = PopFront(logWriteBuffer)
    /\ UNCHANGED <<proc, initPc, dpc, wpc, ppc, pending, nextId,
                   configCalls, flagVars, engineMtx, logMtx, logCVSignal,
                   cfgVars, logStreamOpen, logReadBuffer, appended,
                   closeMark, outputAtInit>>

\* one round of while( ! logWriteBuffer.empty()), without logMtx
WorkerDrain ==
    /\ Running /\ wpc = "drain" /\ logWriteBuffer # <<>>
    /\ LET logMsg == Front(logWriteBuffer) IN
       /\ consoleOut' = IF output["CONSOLE"]
                        THEN Append(consoleOut, logMsg.toConsole)
                        ELSE consoleOut
       /\ fileOut' = IF output["FILE"] /\ logStreamOpen
                     THEN Append(fileOut, logMsg.toFile)
                     ELSE fileOut
    /\ logWriteBuffer' = PopFront(logWriteBuffer)
    /\ UNCHANGED <<proc, initPc, dpc, wpc, ppc, pending, nextId,
                   configCalls, flagVars, engineMtx, logMtx, logCVSignal,
                   cfgVars, logStreamOpen, logReadBuffer, appended,
                   closeMark, outputAtInit>>

\* if(output.at(Output::FILE)) logStream << std::flush; then the top of
\* while(true), where isEngineReady is true by now, and on to the lock
WorkerFlush ==
    /\ Running /\ wpc = "drain" /\ logWriteBuffer = <<>>
    /\ wpc' = "lock"
    /\ UNCHANGED <<proc, initPc, dpc, ppc, pending, nextId, configCalls,
                   flagVars, engineMtx, logMtx, logCVSignal, cfgVars,
                   logStreamOpen, bufVars, sinkVars, closeMark, outputAtInit>>

(* --------------------------- ~LogHandler() ---------------------------- *)
\* outputEngine() never returns, so outputThread.join() never does: the
\* destructor has no step after it.

\* a destructor that sets isCloseEngine without waiting for isEngineReady
DtorBeginNoWait ==
    /\ Running /\ dpc = "none" /\ engineMtx = "free"
    /\ closeMark' = Len(appended)
    /\ isCloseEngine' = TRUE
    /\ engineMtx' = "dtor"
    /\ dpc' = "join"
    /\ UNCHANGED <<proc, initPc, wpc, ppc, pending, nextId, configCalls,
                   isEngineReady, isStop, logMtx, logCVSignal, cfgVars,
                   logStreamOpen, bufVars, sinkVars, outputAtInit>>

\* unique_lock(engineMtx); while( ! isEngineReady) engineCV.wait(...);
\* isCloseEngine = true; outputThread.join();
DtorBegin ==
    /\ Running /\ dpc = "none" /\ engineMtx = "free"
    /\ closeMark' = Len(appended)
    /\ IF isEngineReady
       THEN /\ isCloseEngine' = TRUE
            /\ engineMtx' = "dtor"
            /\ dpc' = "join"
       ELSE /\ dpc' = "waitReady"
            /\ UNCHANGED <<isCloseEngine, engineMtx>>
    /\ UNCHANGED <<proc, initPc, wpc, ppc, pending, nextId, configCalls,
                   isEngineReady, isStop, logMtx, logCVSignal, cfgVars,
                   logStreamOpen, bufVars, sinkVars, outputAtInit>>

\* engineCV.wait returns with engineMtx held and isEngineReady true
DtorWake ==
    /\ Running /\ dpc = "waitReady" /\ isEngineReady /\ engineMtx = "free"
    /\ isCloseEngine' = TRUE
    /\ engineMtx' = "dtor"
    /\ dpc' = "join"
    /\ UNCHANGED <<proc, initPc, wpc, ppc, pending, nextId, configCalls,
                   isEngineReady, isStop, logMtx, logCVSignal, cfgVars,
                   logStreamOpen, bufVars, sinkVars, closeMark, outputAtInit>>

(* --------------------------- specification ---------------------------- *)

Next ==
    \/ \E o \in Outputs, b \in BOOLEAN : setOutput(o, b)
    \/ \E path \in LogPaths : setLogFile(path)
    \/ \E l \in SetLevels : setLogLevel(l)
    \/ \E f \in FlushFrequencies : setFlushFrequency(f)
    \/ \E n \in BufferSizes : setMaxBufferSize(n)
    \/ InitSpawn
    \/ InitAgain
    \/ InitLocked
    \/ \E p \in Producers, l \in CallLevels : LogBegin(p, l)
    \/ \E p \in Producers : LogLocked(p)
    \/ WorkerAnnounce
    \/ WorkerLock
    \/ WorkerNotified
    \/ WorkerTimeout
    \/ WorkerReacquire
    \/ WorkerSwap
    \/ WorkerDrain
    \/ WorkerFlush
    \/ DtorBegin
    \/ DtorWake

Spec == Init /\ [][Next]_vars

(* ------------------------------ claims -------------------------------- *)

IsPrefix(a, b) ==
    /\ Len(a) <= Len(b)
    /\ \A i \in 1..Len(a) : a[i] = b[i]

\* the console forms and the file forms of the records, in append order
ConsoleForms(buf) == [i \in 1..Len(buf) |-> buf[i].toConsole]
FileForms(buf) == [i \in 1..Len(buf) |-> buf[i].toFile]

\* C1: at every moment what each sink has received is a prefix of the
\* records in the order of their push_back under logMtx: nothing is
\* reordered, duplicated or skipped.
C1_SinksArePrefixOfAppends ==
    /\ IsPrefix(consoleOut, ConsoleForms(appended))
    /\ IsPrefix(fileOut, FileForms(appended))

\* C1 witness: two records, appended in the opposite order of their log()
\* calls, have both reached both sinks.
C1_Witness ==
    /\ Len(appended) = 2
    /\ appended[1].id > appended[2].id
    /\ Len(consoleOut) = 2
    /\ Len(fileOut) = 2

\* C2: when the worker has left through exit(0) after the close request,
\* both buffers are empty and every record appended before the destructor
\* was entered is in every enabled sink.
C2_NothingDroppedOnShutdown ==
    wpc = "exit" =>
        /\ logReadBuffer = <<>>
        /\ logWriteBuffer = <<>>
        /\ output["CONSOLE"] =>
             \A i \in 1..closeMark :
                \E j \in 1..Len(consoleOut) :
                   consoleOut[j] = appended[i].toConsole
        /\ output["FILE"] =>
             \A i \in 1..closeMark :
                \E j \in 1..Len(fileOut) :
                   fileOut[j] = appended[i].toFile

\* C3: init() has not returned while isEngineReady is still false.
C3_InitReturnsAfterReady ==
    initPc = "returned" => isEngineReady

\* C4: a log() call that takes logMtx while isStop is true throws and
\* leaves both buffers as they were, and no record is in either buffer
\* while isStop is true.
C4_LogBeforeInitThrows ==
    [][ /\ \A p \in Producers :
              (isStop /\ ppc[p] = "formatted" /\ ppc'[p] # "formatted") =>
                  /\ ppc'[p] = "threw"
                  /\ UNCHANGED <<logReadBuffer, logWriteBuffer>>
        /\ isStop' => (logReadBuffer' = <<>> /\ logWriteBuffer' = <<>>)
      ]_vars

\* C4 witness: a log() call has thrown and the engine is still stopped.
C4_Witness ==
    /\ isStop
    /\ \E p \in Producers : ppc[p] = "threw"
    /\ nextId > 0

\* C5 as stated: once init() has spawned the worker, a set* call changes
\* neither the configuration nor the file handle.
C5_FrozenOnceSpawned ==
    [][ (initPc # "none" /\ configCalls' # configCalls) =>
            UNCHANGED <<cfgVars, logStreamOpen>> ]_vars

\* C5 amended: the configuration and the file handle change only in a step
\* taken while isStop is true (init() itself opens the file in the step
\* that clears isStop); with isStop false every set* call changes nothing.
C5_FrozenOnceNotStopped ==
    [][ (<<cfgVars, logStreamOpen>>' # <<cfgVars, logStreamOpen>>) => isStop
      ]_vars

\* C5 witness: the engine runs with a configuration that a set* call made
\* before isStop was cleared, and records have been logged under it.
C5_Witness ==
    /\ ~isStop
    /\ configCalls = 1
    /\ (maxBufferSize = 2 \/ ~output["CONSOLE"])
    /\ initPc = "returned"
    /\ wpc = "drain"

\* C6: when exactly T = maxBufferSize records have been appended and all
\* of them are still in the read buffer, a worker blocked in wait_for has
\* been notified (so it swaps and drains without the timeout).
C6_ThresholdWakesWorker ==
    ( /\ maxBufferSize > 0
      /\ Len(appended) = maxBufferSize
      /\ logReadBuffer = appended
      /\ wpc = "wait" ) => logCVSignal

\* C7: no record whose level is below logLevel is in the read buffer, the
\* write buffer or a sink.
C7_NoRecordBelowMinLevel ==
    /\ \A i \in 1..Len(logReadBuffer) : logReadBuffer[i].level >= logLevel
    /\ \A i \in 1..Len(logWriteBuffer) : logWriteBuffer[i].level >= logLevel
    /\ \A i \in 1..Len(consoleOut) : consoleOut[i][2] >= logLevel
    /\ \A i \in 1..Len(fileOut) : fileOut[i][1] >= logLevel

\* C8: the step of the destructor that sets isCloseEngine notifies logCV,
\* so a worker blocked in wait_for is woken.
C8_TeardownNotifiesWorker ==
    [][ (~isCloseEngine /\ isCloseEngine' /\ wpc = "wait") => logCVSignal'
      ]_vars

\* C9: a second init() is answered with an error and the process, with
\* its single worker, keeps running.
C9_SecondInitKeepsEngine ==
    proc # "aborted"

\* C10: when the directory or the file cannot be created or opened in
\* init(), the caller gets the error and isStop stays true, so nothing
\* can be appended.
C10_FailedInitStaysStopped ==
    /\ initPc = "threw" => (isStop /\ appended = <<>>)
    /\ (initPc = "returned" /\ output["FILE"]) => logStreamOpen

\* C11: teardown completes: when the process has ended, the destructor
\* had passed outputThread.join() and had closed the file handle.
C11_TeardownCompletes ==
    proc = "exited" => (dpc = "done" /\ ~logStreamOpen)


\* C12 (as stated): a sink receives records only if it was enabled in the
\* output map at the moment init() was called.
C12_SinksAsSelectedAtInit ==
    /\ consoleOut # <<>> => outputAtInit["CONSOLE"]
    /\ fileOut # <<>> => outputAtInit["FILE"]

\* C12 (amended): a sink receives records only if it is enabled in the
\* output map that init() froze by clearing isStop.
C12_SinksAsSelectedWhenStarted ==
    /\ consoleOut # <<>> => (~isStop /\ output["CONSOLE"])
    /\ fileOut # <<>> => (~isStop /\ output["FILE"])
    /\ (~isStop /\ ~output["CONSOLE"]) => consoleOut = <<>>
    /\ (~isStop /\ ~output["FILE"]) => fileOut = <<>>

C12_Witness ==
    /\ ~output["CONSOLE"] /\ output["FILE"]
    /\ consoleOut = <<>> /\ Len(fileOut) = MaxRecords
    /\ logReadBuffer = <<>> /\ logWriteBuffer = <<>>


\* C13: an invalid option value (flush period 0, buffer threshold 0) is
\* rejected and the configuration unchanged, so neither option is ever 0.
C13_InvalidValueRejected ==
    flushFrequency > 0 /\ maxBufferSize > 0


\* C14: every appended record reaches every enabled sink.  A record leaves
\* the buffers only by being popped in the drain loop, so once the worker is
\* back in its wait with both buffers empty, each enabled sink holds every
\* appended record.
C14_AppendedReachEnabledSinks ==
    (wpc = "wait" /\ logReadBuffer = <<>> /\ logWriteBuffer = <<>>)
        => /\ output["CONSOLE"] => Len(consoleOut) = Len(appended)
           /\ output["FILE"] => Len(fileOut) = Len(appended)


\* the steps of outputEngine()
WorkerStep ==
    \/ WorkerAnnounce \/ WorkerLock \/ WorkerNotified \/ WorkerTimeout
    \/ WorkerReacquire \/ WorkerSwap \/ WorkerDrain \/ WorkerFlush

\* C15: after a successful init(), once teardown has begun the worker
\* exits: it is never stuck short of its exit, so in every such state it
\* has exited or it has a step to take.
C15_WorkerExitsOnShutdown ==
    (dpc # "none" /\ initPc = "returned")
        => (proc = "exited" \/ ENABLED WorkerStep)


\* C16: while the worker is in its drain loop or at the flush that follows
\* it, logMtx is free and every producer that has formatted a record can
\* take the lock and append it to logReadBuffer.
C16_DrainWithoutLock ==
    (Running /\ wpc = "drain")
        => /\ logMtx = "free"
           /\ ~isStop
           /\ \A p \in Producers :
                ppc[p] = "formatted" => ENABLED LogLocked(p)

\* a record was appended while the worker was draining: the swap left
\* logReadBuffer empty, and it is not empty any more
C16_Witness ==
    /\ Running /\ wpc = "drain"
    /\ Len(logWriteBuffer) = 1 /\ Len(logReadBuffer) = 1


\* C17: the swap step runs with logMtx held by the worker and logWriteBuffer
\* empty, and leaves logReadBuffer empty; apart from the swap,
\* logReadBuffer changes only by a producer appending its record while the
\* worker does not hold logMtx, and logWriteBuffer only by the worker
\* popping its front in the drain loop.
C17_BufferPairDiscipline ==
    [][/\ (wpc = "swap" /\ wpc' # "swap")
            => /\ logMtx = "worker"
               /\ logWriteBuffer = <<>>
               /\ logWriteBuffer' = logReadBuffer
               /\ logReadBuffer' = <<>>
       /\ (wpc # "swap" /\ logReadBuffer' # logReadBuffer)
            => /\ logMtx = "free"
               /\ logWriteBuffer' = logWriteBuffer
               /\ \E p \in Producers :
                    /\ ppc[p] = "formatted"
                    /\ logReadBuffer' = Append(logReadBuffer, pending[p])
       /\ (wpc # "swap" /\ logWriteBuffer' # logWriteBuffer)
            => /\ wpc = "drain"
               /\ logReadBuffer' = logReadBuffer
               /\ logWriteBuffer' = Tail(logWriteBuffer)]_vars

\* just after a swap that handed MaxRecords records to the worker
C17_Witness ==
    /\ wpc = "drain" /\ logMtx = "free"
    /\ Len(logWriteBuffer) = MaxRecords /\ logReadBuffer = <<>>
    /\ consoleOut = <<>> /\ fileOut = <<>>


\* C18: whenever the worker is in its drain loop or at the flush, where it
\* writes to logStream, init() has left the section that opens the stream
\* and isStop is false, so that no set* method opens or closes it; and
\* records reach the file only through a stream that init() opened.
C18_FileHandleNotShared ==
    /\ wpc = "drain" => (initPc \in {"returned", "threw"} /\ ~isStop)
    /\ fileOut # <<>> => (initPc = "returned" /\ logStreamOpen)

\* the worker is writing to the open stream while the destructor is
\* blocked in join()
C18_Witness ==
    /\ Running /\ wpc = "drain" /\ dpc = "join"
    /\ logStreamOpen /\ Len(fileOut) = 1 /\ logWriteBuffer # <<>>


\* C19: no step taken while the worker is in its drain loop or at the
\* flush changes the output map or opens or closes logStream.
C19_SinkConfigStableInDrain ==
    [][wpc = "drain" => UNCHANGED <<output, logStreamOpen>>]_vars

\* the worker is in the middle of a drain under a sink selection that a
\* setOutput call made, with the stream open
C19_Witness ==
    /\ Running /\ wpc = "drain"
    /\ ~output["CONSOLE"] /\ output["FILE"] /\ logStreamOpen
    /\ Len(logWriteBuffer) = 1 /\ Len(fileOut) = 1


\* C20: a destructor entered on a handler whose init() was never called
\* stays in its wait for isEngineReady: there is no worker to set the
\* flag, isCloseEngine is never set and the wait is never left.
C20_TeardownWithoutInitBlocks ==
    (initPc = "none" /\ dpc # "none")
        => /\ dpc = "waitReady"
           /\ wpc = "notStarted"
           /\ ~isEngineReady /\ ~isCloseEngine
           /\ ~ENABLED DtorWake

\* the destructor waits on a handler that was configured but never started
C20_Witness ==
    /\ Running /\ initPc = "none" /\ dpc = "waitReady"
    /\ configCalls = MaxConfigCalls

=============================================================================
